---- MODULE Spec2Model ----
(***************************************************************************)
(* The real-time streaming monitor of the wallet tracker dashboard: the    *)
(* Monitor class (server-sent-event feed with bounded reconnection and two *)
(* bounded display feeds) and the FastAPIAnalysisConsole class (one        *)
(* analysis stream per run).  Every handler of the two classes is one      *)
(* action; the browser's EventSource objects are the environment.          *)
(***************************************************************************)
EXTENDS Integers, Sequences, FiniteSets, TLC

(***************************************************************************)
(* Program constants.                                                      *)
(***************************************************************************)
maxReconnectAttempts == 5
reconnectDelay == 1000
ActivityLimit == 100
AlertLimit == 50
ConsoleLimit == 500
ConsoleTrim == 100
MaxWallets == 500

(***************************************************************************)
(* Bounds of the model.                                                    *)
(***************************************************************************)
\* EventSource objects that can be alive (not yet closed) at the same time.
MaxSources == 2
\* Records pushed to the activity feed since the last clear or page load.
MaxActivity == 6
\* Frames delivered by the server since the last page load.
MaxFrames == 1
\* Reconnection timers that can be pending at the same time.
MaxTimers == 2
\* Commands the user gives (connect, start, stop, clear) per page load.
MaxUserOps == 2
\* EventSource objects of the analysis console that can be alive at the same time.
MaxConsoleSources == 2
\* Lines in the analysis console beyond which no handler that adds to them is run.
MaxLines == 8
\* Frames delivered to a page whose feeds are about to be full.
MaxFeedFrames == 3
\* Records by which the feeds of that page are short of their capacity at first.
FeedSlack == 1

VARIABLES
    \* ---- Monitor fields ----
    eventSource,        \* this.eventSource: 0 is null, else the EventSource held
    isConnected,        \* this.isConnected
    reconnectAttempts,  \* this.reconnectAttempts
    activityCount,      \* this.activityCount
    alertCount,         \* this.alertCount
    \* ---- the page around the Monitor ----
    readyState,         \* readyState of every EventSource object the page created
    timers,             \* pending setTimeout(() => this.connectToSSE()) callbacks
    reloadPending,      \* a setTimeout(() => location.reload()) is pending
    activityFeed,       \* the .activity-item children of #activity-feed, newest first
    alertFeed,          \* the .alert-item children of #alerts-sidebar, newest first
    frames,             \* frames the server has delivered since the page was loaded
    userOps,            \* commands the user has given since the page was loaded
    \* ---- FastAPIAnalysisConsole fields and its page ----
    isRunning,          \* this.isRunning
    consoleSource,      \* this.eventSource of the console: 0 is null
    consoleReadyState,  \* readyState of every EventSource the console created
    consoleLines,       \* the children of #console, oldest first
    \* ---- history of the run (not program state) ----
    connState,          \* the connection state the last lifecycle handler entered
    lastOp,             \* the handler that ran last
    prevOp,             \* the handler that ran before it
    lastFrame,          \* the kind of the frame the last handler was given, or "none"
    errs,               \* onerror signals handled since reconnectAttempts was last 0
    entries,            \* entries into Reconnecting since reconnectAttempts was last 0
    lastDelay,          \* the delay of the reconnection timer scheduled last, 0 if none
    rows,               \* the rows of the monitored-wallets table, by data-wallet
    rowCalls,           \* the addresses updateMonitoredWalletRow was called with, in order
    lastInput           \* the parsed inputs the last handler read, if it was startAnalysis

monitorVars ==
    <<eventSource, isConnected, reconnectAttempts, activityCount, alertCount,
      readyState, timers, reloadPending, activityFeed, alertFeed, connState,
      errs, entries, lastDelay, rows, rowCalls>>

consoleVars == <<isRunning, consoleSource, consoleReadyState, consoleLines>>

vars == <<monitorVars, consoleVars, frames, userOps, lastOp, prevOp, lastFrame, lastInput>>

\* The value of an input after parseInt or parseFloat: a number or NaN.
Num(v) == [nan |-> FALSE, val |-> v]
NaN == [nan |-> TRUE, val |-> 0]

Input(wallets, days) == [wallets |-> wallets, days |-> days]
NoInput == Input(NaN, NaN)

\* The addresses of the wallets the server watches; address.substring(0, 10) of
\* each is the address itself.  The table of the page shows a row for the first.
Wallets == {"0xaaa", "0xbbb"}
ShownWallets == {"0xaaa"}

\* A row of the table: the instant in its fourth cell and the count in its fifth.
Row(time, alert_count) == [time |-> time, alert_count |-> alert_count]
RenderedRows == [w \in ShownWallets |-> Row(0, 0)]

Sources == 1..MaxSources
ConsoleSources == 1..MaxConsoleSources

CONNECTING == "CONNECTING"
OPEN == "OPEN"
CLOSED == "CLOSED"

\* An EventSource that has not been closed can still deliver signals.
Unclosed == {c \in Sources : readyState[c] # CLOSED}
ConsoleUnclosed == {c \in ConsoleSources : consoleReadyState[c] # CLOSED}

(***************************************************************************)
(* Display records.  n carries the number printed in the record: the       *)
(* attempt of a reconnection record, the timestamp of the record of a      *)
(* frame, 0 in every other record.                                         *)
(***************************************************************************)
Item(message, type, n) == [message |-> message, type |-> type, n |-> n]

ConnectedItem == Item("Connected to real-time feed", "success", 0)
\* The same at the severity of the record that gives up.
ReconnectingItem_error(n) == Item("Connection lost. Reconnecting...", "error", n)

ReconnectingItem(n) == Item("Connection lost. Reconnecting...", "warning", n)
FailedItem == Item("Connection failed. Please refresh the page.", "error", 0)
DisconnectedItem == Item("Disconnected from real-time feed", "warning", 0)

\* The same without the limit.
addActivityItem_unbounded(feed, item) == <<item>> \o feed

\* The same with append for prepend: the new record goes to the far end, and the
\* records cut are the newest.
addActivityItem_appended(feed, item) ==
    LET items == Append(feed, item)
    IN  IF Len(items) > ActivityLimit THEN SubSeq(items, 1, ActivityLimit) ELSE items

\* feed.prepend(item), then items.slice(100).remove()
addActivityItem(feed, item) ==
    LET items == <<item>> \o feed
    IN  IF Len(items) > ActivityLimit THEN SubSeq(items, 1, ActivityLimit) ELSE items

\* sidebar.prepend(alert), then alerts.slice(50).remove()
addAlertToSidebar(feed, item) ==
    LET alerts == <<item>> \o feed
    IN  IF Len(alerts) > AlertLimit THEN SubSeq(alerts, 1, AlertLimit) ELSE alerts

\* this.addActivityItem(...) as a step: the feed and this.activityCount++
PushActivity(item) ==
    /\ activityFeed' = addActivityItem(activityFeed, item)
    /\ activityCount' = activityCount + 1

(***************************************************************************)
(* Lines of the analysis console.  processed, total and percentage are the *)
(* numbers printed in a progress line and 0 in every other line.           *)
(***************************************************************************)
Line(message, type) ==
    [message |-> message, type |-> type, processed |-> 0, total |-> 0, percentage |-> 0]

\* this.log(`Progress: ${processed}/${total} (${percentage || 0}%)`, 'progress')
ProgressLine(processed, total, percentage) ==
    [message |-> "Progress: processed/total (percentage%)", type |-> "progress",
     processed |-> processed, total |-> total, percentage |-> percentage]

RECURSIVE LogAll(_, _)
RECURSIVE ActivityAfter(_, _)
RECURSIVE SidebarAfter(_, _)

\* The two lines init() logs.
ReadyLines ==
    <<Line("FastAPI Analysis Console Ready", "info"),
      Line("Select network and parameters", "info")>>

\* The three lines startAnalysis() logs before it opens the stream.
StartLines ==
    <<Line("Starting analysis", "info"),
      Line("Parameters", "info"),
      Line("Connecting to stream", "debug")>>

\* this.console.appendChild(div); once more than 500 lines are held, the first
\* 100 are removed.
log(lines, line) ==
    LET all == Append(lines, line)
    IN  IF Len(all) > ConsoleLimit THEN SubSeq(all, ConsoleTrim + 1, Len(all)) ELSE all

(***************************************************************************)
(* The state after construction and page load.                             *)
(***************************************************************************)
Init ==
    /\ isRunning = FALSE
    /\ consoleSource = 0
    /\ consoleReadyState = [c \in ConsoleSources |-> CLOSED]
    /\ consoleLines = ReadyLines
    /\ eventSource = 0
    /\ isConnected = FALSE
    /\ reconnectAttempts = 0
    /\ activityCount = 0
    /\ alertCount = 0
    /\ readyState = [c \in Sources |-> CLOSED]
    /\ timers = 0
    /\ reloadPending = FALSE
    /\ activityFeed = <<>>
    /\ alertFeed = <<>>
    /\ frames = 0
    /\ userOps = 0
    /\ connState = "Idle"
    /\ lastOp = "init"
    /\ prevOp = "init"
    /\ lastFrame = "none"
    /\ lastInput = NoInput
    /\ rows = RenderedRows
    /\ rowCalls = <<>>
    /\ errs = 0
    /\ entries = 0
    /\ lastDelay = 0

DidFrame(op, type) ==
    lastOp' = op /\ prevOp' = lastOp /\ lastFrame' = type /\ lastInput' = NoInput
Did(op) == DidFrame(op, "none")

\* A handler run by the browser (a signal of an EventSource, a timer).
Signal(op) == Did(op) /\ UNCHANGED <<userOps, consoleVars, rows, rowCalls>>
SignalFrame(op, type) == DidFrame(op, type) /\ UNCHANGED <<userOps, consoleVars>>

\* A handler run by a command of the user.
Command(op) ==
    /\ Did(op)
    /\ userOps < MaxUserOps
    /\ userOps' = userOps + 1
    /\ UNCHANGED <<consoleVars, rows, rowCalls>>

(***************************************************************************)
(* Frames of /api/stream, after JSON.parse.  priority is "none" in a frame *)
(* that carries none.  timestamp is the instant the frame was sent and     *)
(* arrived at, counted in frames from the first state of the model on.     *)
(* wallet is the address a transaction carries as data.wallet and a        *)
(* wallet_update as data.wallet.address, NoWallet in a frame without it;   *)
(* alert_count is the optional data.alert_count.                           *)
(***************************************************************************)
NoWallet == "none"
AlertCount(n) == [defined |-> TRUE, val |-> n]
Undefined == [defined |-> FALSE, val |-> 0]

WalletFrameAt(type, wallet, alert_count, t) ==
    [type |-> type, priority |-> "none", timestamp |-> t,
     wallet |-> wallet, alert_count |-> alert_count]
FrameAt(type, priority, t) ==
    [WalletFrameAt(type, NoWallet, Undefined, t) EXCEPT !.priority = priority]

\* new Date(), on the clock that stamps the frames
Now == frames + 1
Frame(type, priority) == FrameAt(type, priority, 0)

\* event.data that is not JSON has no type: JSON.parse throws.
NotJSON == "not json"
parses(data) == data.type # NotJSON

\* The kind of a frame: its type, but an alert that carries no priority is not an
\* alert event.
NoPriority == "alert without priority"
NoPayload == "event without wallet"
Kind(data) ==
    IF data.type = "alert" /\ data.priority = "none" THEN NoPriority
    ELSE IF data.type \in {"transaction", "wallet_update"} /\ data.wallet = NoWallet
    THEN NoPayload
    ELSE data.type

MonitorFrames == {Frame("system", "none"), Frame("alert", "high")}

(***************************************************************************)
(* Monitor.connectToSSE                                                    *)
(***************************************************************************)
\* The same without the close(): the connection replaced is left open.
closeExisting_skipped(rs, es) == rs

\* if (this.eventSource) { this.eventSource.close(); }
closeExisting(rs, es) == IF es # 0 THEN [rs EXCEPT ![es] = CLOSED] ELSE rs

\* this.eventSource = new EventSource('/api/stream').  The constructor throws only
\* for a URL that does not parse, which this constant one does: the catch branch
\* of connectToSSE is never taken.  A closed EventSource that nothing references is
\* garbage, so the new object takes the lowest such place.
connectToSSE ==
    LET closed == closeExisting(readyState, eventSource)
        free == {c \in Sources : closed[c] = CLOSED}
    IN  /\ free # {}
        /\ LET c == CHOOSE x \in free : \A y \in free : x <= y
           IN  /\ readyState' = [closed EXCEPT ![c] = CONNECTING]
               /\ eventSource' = c
        /\ connState' = "Connecting"

\* The same without the cap: every failure is retried.
shouldRetry_always(attempt) == attempt >= 0

\* The same with <= for <: one attempt too many.
shouldRetry_atMost(attempt) == attempt <= maxReconnectAttempts

\* The same with the cap counted from 1: one attempt too few.
shouldRetry_oneLess(attempt) == attempt < maxReconnectAttempts - 1

\* if (this.reconnectAttempts < this.maxReconnectAttempts)
shouldRetry(attempt) == attempt < maxReconnectAttempts

\* The same without the factor: every reconnection waits the base delay.
delayFor_flat(attempt) == reconnectDelay

\* this.reconnectDelay * this.reconnectAttempts
delayFor(attempt) == reconnectDelay * attempt

ErrsCap == maxReconnectAttempts + 1
Count(n) == IF n < ErrsCap THEN n + 1 ELSE n

\* The same without this.reconnectAttempts = 0: the counter survives the open.
onopen_noReset(c) ==
    /\ readyState[c] = CONNECTING
    /\ activityCount < MaxActivity
    /\ readyState' = [readyState EXCEPT ![c] = OPEN]
    /\ isConnected' = TRUE
    /\ reconnectAttempts' = reconnectAttempts
    /\ PushActivity(ConnectedItem)
    /\ connState' = "Open"
    /\ errs' = 0
    /\ entries' = 0
    /\ lastDelay' = 0
    /\ Signal("onopen")
    /\ UNCHANGED <<eventSource, alertCount, timers, reloadPending, alertFeed, frames>>

\* eventSource.onopen, delivered by EventSource c
onopen(c) ==
    /\ readyState[c] = CONNECTING
    /\ activityCount < MaxActivity
    /\ readyState' = [readyState EXCEPT ![c] = OPEN]
    /\ isConnected' = TRUE
    /\ reconnectAttempts' = 0
    /\ PushActivity(ConnectedItem)
    /\ connState' = "Open"
    /\ errs' = 0
    /\ entries' = 0
    /\ lastDelay' = 0
    /\ Signal("onopen")
    /\ UNCHANGED <<eventSource, alertCount, timers, reloadPending, alertFeed, frames>>

\* eventSource.onerror, delivered by EventSource c.  The browser either gives the
\* connection up (fatal: readyState CLOSED) or reconnects by itself (CONNECTING).
onerror(c, fatal) ==
    /\ readyState[c] # CLOSED
    /\ activityCount < MaxActivity
    /\ readyState' = [readyState EXCEPT ![c] = IF fatal THEN CLOSED ELSE CONNECTING]
    /\ isConnected' = FALSE
    /\ IF shouldRetry(reconnectAttempts)
       THEN /\ timers < MaxTimers
            /\ reconnectAttempts' = reconnectAttempts + 1
            /\ PushActivity(ReconnectingItem(reconnectAttempts + 1))
            /\ timers' = timers + 1
            /\ connState' = "Reconnecting"
            /\ entries' = Count(entries)
            /\ lastDelay' = delayFor(reconnectAttempts + 1)
       ELSE /\ PushActivity(FailedItem)
            /\ connState' = "Failed"
            /\ UNCHANGED <<reconnectAttempts, timers, entries, lastDelay>>
    /\ errs' = Count(errs)
    /\ Signal("onerror")
    /\ UNCHANGED <<eventSource, alertCount, reloadPending, alertFeed, frames>>

\* The same with a callback that does nothing: the timer fires and no connection
\* is attempted.
reconnectTimer_idle ==
    /\ timers > 0
    /\ timers' = timers - 1
    /\ Signal("timerIdle")
    /\ UNCHANGED <<eventSource, readyState, connState, isConnected, reconnectAttempts,
                   activityCount, alertCount, reloadPending, activityFeed, alertFeed,
                   frames, errs, entries, lastDelay>>

\* setTimeout(() => { this.connectToSSE(); }, ...) fires
reconnectTimer ==
    /\ timers > 0
    /\ timers' = timers - 1
    /\ connectToSSE
    /\ Signal("reconnectTimer")
    /\ UNCHANGED <<isConnected, reconnectAttempts, activityCount, alertCount,
                   reloadPending, activityFeed, alertFeed, frames, errs, entries,
                   lastDelay>>

(***************************************************************************)
(* Monitor.handleSSEData and the handlers it dispatches to                 *)
(***************************************************************************)
\* The same without the sidebar: the alert is shown in the activity feed only.
handleAlertData_noSidebar(data) ==
    IF data.priority = "none"
    THEN /\ PushActivity(Item("alert.message", "info", data.timestamp))
         /\ UNCHANGED <<alertFeed, alertCount>>
    ELSE /\ PushActivity(Item("alert.message", data.priority, data.timestamp))
         /\ UNCHANGED <<alertFeed, alertCount>>

\* An alert without a priority is shown in the activity feed at the default type;
\* addAlertToSidebar then throws at alert.priority.charAt before it adds anything,
\* and the catch of onmessage ends the handler.
handleAlertData(data) ==
    IF data.priority = "none"
    THEN /\ PushActivity(Item("alert.message", "info", data.timestamp))
         /\ UNCHANGED <<alertFeed, alertCount>>
    ELSE /\ PushActivity(Item("alert.message", data.priority, data.timestamp))
         /\ alertFeed' = addAlertToSidebar(alertFeed,
                              Item("alert.message", data.priority, data.timestamp))
         /\ alertCount' = alertCount + 1

handleSystemMessage(data) ==
    /\ PushActivity(Item("data.message", "info", data.timestamp))
    /\ UNCHANGED <<alertFeed, alertCount>>

\* The row of the address, if the table shows one, gets the time of day and, if
\* the frame carries an alert_count, the count.
updateMonitoredWalletRow(address, data) ==
    /\ rowCalls' = Append(rowCalls, address)
    /\ rows' = IF address \in DOMAIN rows
               THEN [rows EXCEPT ![address] =
                        Row(Now, IF data.alert_count.defined
                                 THEN data.alert_count.val
                                 ELSE @.alert_count)]
               ELSE rows

\* The same without the call of updateMonitoredWalletRow.
handleTransactionData_noRow(data) ==
    IF data.wallet = NoWallet
    THEN UNCHANGED <<activityFeed, activityCount, alertFeed, alertCount, rows, rowCalls>>
    ELSE /\ PushActivity(Item("New transaction detected for " \o data.wallet \o "...",
                              "info", data.timestamp))
         /\ UNCHANGED <<alertFeed, alertCount, rows, rowCalls>>

\* wallet.substring of a frame without a wallet throws before anything is added,
\* and the catch of onmessage ends the handler.
handleTransactionData(data) ==
    IF data.wallet = NoWallet
    THEN UNCHANGED <<activityFeed, activityCount, alertFeed, alertCount, rows, rowCalls>>
    ELSE /\ PushActivity(Item("New transaction detected for " \o data.wallet \o "...",
                              "info", data.timestamp))
         /\ updateMonitoredWalletRow(data.wallet, data)
         /\ UNCHANGED <<alertFeed, alertCount>>

\* wallet.address of a frame without a wallet throws in the same way.
handleWalletUpdate(data) ==
    IF data.wallet = NoWallet
    THEN UNCHANGED <<activityFeed, activityCount, alertFeed, alertCount, rows, rowCalls>>
    ELSE /\ PushActivity(Item("Wallet " \o data.wallet \o "... updated",
                              "info", data.timestamp))
         /\ updateMonitoredWalletRow(data.wallet, data)
         /\ UNCHANGED <<alertFeed, alertCount>>

handleSSEData(data) ==
    CASE data.type = "transaction" -> handleTransactionData(data)
      [] data.type = "alert" -> handleAlertData(data) /\ UNCHANGED <<rows, rowCalls>>
      [] data.type = "wallet_update" -> handleWalletUpdate(data)
      [] data.type = "system" -> handleSystemMessage(data) /\ UNCHANGED <<rows, rowCalls>>
      [] OTHER -> UNCHANGED <<activityFeed, activityCount, alertFeed, alertCount,
                              rows, rowCalls>>

\* eventSource.onmessage, delivered by EventSource c: a frame that does not parse
\* is reported by the catch to the browser's console only.
receive(c, data) ==
    /\ readyState[c] = OPEN
    /\ frames' = frames + 1
    /\ IF parses(data)
       THEN handleSSEData(data)
       ELSE UNCHANGED <<activityFeed, activityCount, alertFeed, alertCount, rows, rowCalls>>
    /\ SignalFrame("onmessage", Kind(data))
    /\ UNCHANGED <<eventSource, isConnected, reconnectAttempts, readyState, timers,
                   reloadPending, connState, errs, entries,
                   lastDelay>>

onmessage(c, data) ==
    /\ activityCount < MaxActivity
    /\ frames < MaxFrames
    /\ receive(c, data)

(***************************************************************************)
(* Monitor.disconnectSSE, startMonitoring, stopMonitoring, clearActivityFeed*)
(***************************************************************************)
\* The same without the close(): the reference is dropped, the connection lives.
closeHeld_skipped(rs, es) == rs

\* if (this.eventSource) { this.eventSource.close(); this.eventSource = null; }
closeHeld(rs, es) == IF es # 0 THEN [rs EXCEPT ![es] = CLOSED] ELSE rs

disconnectSSE ==
    /\ readyState' = closeHeld(readyState, eventSource)
    /\ eventSource' = 0
    /\ isConnected' = FALSE
    /\ PushActivity(DisconnectedItem)
    /\ connState' = "Idle"

\* The global connectToSSE(), called from the page.
userConnect ==
    /\ connectToSSE
    /\ Command("connectToSSE")
    /\ UNCHANGED <<isConnected, reconnectAttempts, activityCount, alertCount, timers,
                   reloadPending, activityFeed, alertFeed, frames, errs, entries,
                   lastDelay>>

\* startMonitoring, from the response of POST /api/start_monitoring on: ok is
\* response.ok && result.success; a rejected fetch is ok = FALSE too.
startMonitoring(ok) ==
    IF ok
    THEN /\ connectToSSE
         /\ reloadPending' = TRUE
         /\ Command("startMonitoring")
         /\ UNCHANGED <<isConnected, reconnectAttempts, activityCount, alertCount,
                        timers, activityFeed, alertFeed, frames, errs, entries,
                        lastDelay>>
    ELSE /\ Command("startMonitoringFailed")
         /\ UNCHANGED <<eventSource, isConnected, reconnectAttempts, activityCount,
                        alertCount, readyState, timers, reloadPending, activityFeed,
                        alertFeed, frames, connState, errs, entries,
                        lastDelay>>

\* stopMonitoring, from the response of POST /api/stop_monitoring on.
stopMonitoring(ok) ==
    IF ok
    THEN /\ activityCount < MaxActivity
         /\ disconnectSSE
         /\ reloadPending' = TRUE
         /\ Command("stopMonitoring")
         /\ UNCHANGED <<reconnectAttempts, alertCount, timers, alertFeed, frames,
                        errs, entries,
                        lastDelay>>
    ELSE /\ Command("stopMonitoringFailed")
         /\ UNCHANGED <<eventSource, isConnected, reconnectAttempts, activityCount,
                        alertCount, readyState, timers, reloadPending, activityFeed,
                        alertFeed, frames, connState, errs, entries,
                        lastDelay>>

\* The same clearing the alert sidebar too.
clearActivityFeed_all ==
    /\ activityFeed' = <<>>
    /\ activityCount' = 0
    /\ alertFeed' = <<>>
    /\ Command("clearActivityFeed")
    /\ UNCHANGED <<eventSource, isConnected, reconnectAttempts, alertCount, readyState,
                   timers, reloadPending, frames, connState, errs, entries,
                   lastDelay>>

\* clearActivityFeed(): the items give way to a placeholder.
clearActivityFeed ==
    /\ activityFeed' = <<>>
    /\ activityCount' = 0
    /\ Command("clearActivityFeed")
    /\ UNCHANGED <<eventSource, isConnected, reconnectAttempts, alertCount, readyState,
                   timers, reloadPending, alertFeed, frames, connState, errs, entries,
                   lastDelay>>

\* setTimeout(() => { location.reload(); }, 1000) fires: the page, its timers and
\* its EventSources are gone and a new Monitor is constructed.
reload ==
    /\ reloadPending
    /\ eventSource' = 0
    /\ isConnected' = FALSE
    /\ reconnectAttempts' = 0
    /\ activityCount' = 0
    /\ alertCount' = 0
    /\ readyState' = [c \in Sources |-> CLOSED]
    /\ timers' = 0
    /\ reloadPending' = FALSE
    /\ activityFeed' = <<>>
    /\ alertFeed' = <<>>
    /\ frames' = 0
    /\ userOps' = 0
    /\ connState' = "Idle"
    /\ errs' = 0
    /\ entries' = 0
    /\ lastDelay' = 0
    /\ rows' = RenderedRows
    /\ rowCalls' = <<>>
    /\ Did("reload")
    /\ UNCHANGED consoleVars

(***************************************************************************)
(* FastAPIAnalysisConsole                                                  *)
(***************************************************************************)
\* The inputs of the form.  Days are counted in tenths (10 is "1.0").

WalletInputs == {NaN, Num(0), Num(173), Num(501)}
DayInputs == {NaN, Num(0), Num(10), Num(71)}

\* x < n and x > n of JavaScript: false when x is NaN
Less(x, n) == ~x.nan /\ x.val < n
Greater(x, n) == ~x.nan /\ x.val > n

\* if (parseInt(wallets) < 1 || parseInt(wallets) > 500)
walletsRejected(wallets) == Less(wallets, 1) \/ Greater(wallets, 500)

\* if (parseFloat(days) < 0.1 || parseFloat(days) > 7.0)
daysRejected(days) == Less(days, 1) \/ Greater(days, 70)

\* Frames of the analysis stream, after JSON.parse: which optional fields of a
\* progress frame are present.
ConsoleFrame(type, message, counts, wallet) ==
    [type |-> type, message |-> message, counts |-> counts, wallet |-> wallet,
     processed |-> 0, total |-> 0, percentage |-> 0]

\* {"type": "progress", "processed": ..., "total": ..., "percentage": ...}
ProgressFrame(processed, total, percentage) ==
    [ConsoleFrame("progress", FALSE, TRUE, FALSE) EXCEPT
        !.processed = processed, !.total = total, !.percentage = percentage]

ConsoleFrames ==
    {ProgressFrame(3, 10, 30),
     ConsoleFrame("complete", FALSE, FALSE, FALSE),
     ConsoleFrame("error", FALSE, FALSE, FALSE),
     ConsoleFrame("heartbeat", FALSE, FALSE, FALSE),
     ConsoleFrame(NotJSON, FALSE, FALSE, FALSE)}

LogAll(lines, new) ==
    IF new = <<>> THEN lines ELSE LogAll(log(lines, Head(new)), Tail(new))

\* setRunning(running): the button and the inputs follow this.isRunning
setRunning(running) == isRunning' = running

\* stopAnalysis()
stopAnalysis ==
    /\ consoleReadyState' =
          IF consoleSource # 0
          THEN [consoleReadyState EXCEPT ![consoleSource] = CLOSED]
          ELSE consoleReadyState
    /\ consoleSource' = 0
    /\ setRunning(FALSE)
    /\ consoleLines' = log(consoleLines, Line("Analysis stopped by user", "warning"))

ConsoleStep(op, type) == DidFrame(op, type) /\ UNCHANGED monitorVars

\* startAnalysis, once it has read and parsed the inputs.
ConsoleStart(op, wallets, days) ==
    /\ lastOp' = op
    /\ prevOp' = lastOp
    /\ lastFrame' = "none"
    /\ lastInput' = Input(wallets, days)
    /\ UNCHANGED monitorVars

\* startAnalysis(), the click on the run button, with the parsed inputs
startAnalysis(wallets, days) ==
    /\ Len(consoleLines) < MaxLines
    /\ userOps < MaxUserOps
    /\ userOps' = userOps + 1
    /\ UNCHANGED frames
    /\ IF isRunning
       THEN /\ stopAnalysis
            /\ ConsoleStep("stopAnalysis", "none")
       ELSE IF walletsRejected(wallets)
       THEN /\ consoleLines' =
                  log(consoleLines, Line("Wallets must be between 1 and 500", "error"))
            /\ ConsoleStart("startAnalysisRejected", wallets, days)
            /\ UNCHANGED <<isRunning, consoleSource, consoleReadyState>>
       ELSE IF daysRejected(days)
       THEN /\ consoleLines' =
                  log(consoleLines, Line("Days must be between 0.1 and 7.0", "error"))
            /\ ConsoleStart("startAnalysisRejected", wallets, days)
            /\ UNCHANGED <<isRunning, consoleSource, consoleReadyState>>
       ELSE LET free == {c \in ConsoleSources : consoleReadyState[c] = CLOSED}
            IN  /\ free # {}
                /\ consoleLines' = LogAll(consoleLines, StartLines)
                /\ setRunning(TRUE)
                /\ LET c == CHOOSE x \in free : \A y \in free : x <= y
                   IN  /\ consoleReadyState' =
                             [consoleReadyState EXCEPT ![c] = CONNECTING]
                       /\ consoleSource' = c
                /\ ConsoleStart("startAnalysis", wallets, days)

\* eventSource.onopen of the console, delivered by EventSource c
consoleOpen(c) ==
    /\ Len(consoleLines) < MaxLines
    /\ consoleReadyState[c] = CONNECTING
    /\ consoleReadyState' = [consoleReadyState EXCEPT ![c] = OPEN]
    /\ consoleLines' = log(consoleLines, Line("Connected to analysis stream", "success"))
    /\ ConsoleStep("consoleOpen", "none")
    /\ UNCHANGED <<isRunning, consoleSource, frames, userOps>>

\* handleStreamData(data): the lines it logs and whether it calls setRunning(false)
\* The same with the two counts printed in each other's place.
progressLines_swapped(data) ==
    (IF data.message THEN <<Line("message", "info")>> ELSE <<>>)
    \o (IF data.counts
        THEN <<ProgressLine(data.total, data.processed, data.percentage)>>
        ELSE <<>>)
    \o (IF data.wallet THEN <<Line("Processing: wallet_address", "debug")>> ELSE <<>>)

progressLines(data) ==
    (IF data.message THEN <<Line("message", "info")>> ELSE <<>>)
    \o (IF data.counts
        THEN <<ProgressLine(data.processed, data.total, data.percentage)>>
        ELSE <<>>)
    \o (IF data.wallet THEN <<Line("Processing: wallet_address", "debug")>> ELSE <<>>)

handleStreamData(data) ==
    CASE data.type = "progress" ->
            /\ consoleLines' = LogAll(consoleLines, progressLines(data))
            /\ UNCHANGED isRunning
      [] data.type = "complete" ->
            /\ consoleLines' =
                  log(consoleLines, Line("Analysis finished successfully", "success"))
            /\ setRunning(FALSE)
      [] data.type = "error" ->
            /\ consoleLines' = log(consoleLines, Line("Error: error", "error"))
            /\ setRunning(FALSE)
      [] OTHER ->
            /\ consoleLines' = log(consoleLines, Line("Received: data", "debug"))
            /\ UNCHANGED isRunning

\* eventSource.onmessage of the console, delivered by EventSource c: a frame that
\* does not parse is logged as an error by the catch.
consoleReceive(c, data) ==
    /\ consoleReadyState[c] = OPEN
    /\ frames' = frames + 1
    /\ IF parses(data)
       THEN handleStreamData(data)
       ELSE /\ consoleLines' = log(consoleLines, Line("Parse error: error.message", "error"))
            /\ UNCHANGED isRunning
    /\ ConsoleStep("consoleMessage", data.type)
    /\ UNCHANGED <<consoleSource, consoleReadyState, userOps>>

consoleMessage(c, data) ==
    /\ Len(consoleLines) < MaxLines
    /\ frames < MaxFrames
    /\ consoleReceive(c, data)

\* eventSource.onerror of the console, delivered by EventSource c
consoleError(c, fatal) ==
    /\ Len(consoleLines) < MaxLines
    /\ consoleReadyState[c] # CLOSED
    /\ consoleReadyState' =
          [consoleReadyState EXCEPT ![c] = IF fatal THEN CLOSED ELSE CONNECTING]
    /\ consoleLines' = log(consoleLines, Line("Stream connection error", "error"))
    /\ setRunning(FALSE)
    /\ ConsoleStep("consoleError", "none")
    /\ UNCHANGED <<consoleSource, frames, userOps>>

\* clearConsole()
clearConsole ==
    /\ userOps < MaxUserOps
    /\ userOps' = userOps + 1
    /\ consoleLines' = log(<<>>, Line("Console cleared", "info"))
    /\ ConsoleStep("clearConsole", "none")
    /\ UNCHANGED <<isRunning, consoleSource, consoleReadyState, frames>>

ConsoleNext ==
    \/ \E wallets \in WalletInputs, days \in DayInputs : startAnalysis(wallets, days)
    \/ \E c \in ConsoleSources : consoleOpen(c)
    \/ \E c \in ConsoleSources, data \in ConsoleFrames : consoleMessage(c, data)
    \/ \E c \in ConsoleSources, fatal \in BOOLEAN : consoleError(c, fatal)
    \/ clearConsole

ConsoleSpec == Init /\ [][ConsoleNext]_vars

Next ==
    \/ userConnect
    \/ \E ok \in BOOLEAN : startMonitoring(ok)
    \/ \E ok \in BOOLEAN : stopMonitoring(ok)
    \/ clearActivityFeed
    \/ \E c \in Sources : onopen(c)
    \/ \E c \in Sources, fatal \in BOOLEAN : onerror(c, fatal)
    \/ \E c \in Sources, data \in MonitorFrames : onmessage(c, data)
    \/ reconnectTimer
    \/ reload

Spec == Init /\ [][Next]_vars

(***************************************************************************)
(* A feed that never opens: the page connects once, the user gives the     *)
(* Monitor no other command, and every EventSource of the Monitor fails.   *)
(* A pending timer does fire, and an EventSource that has not been closed  *)
(* does signal its next error.  Beside it the user starts and stops        *)
(* analyses on the console, whose streams fail too.                        *)
(***************************************************************************)
\* this.eventSource is null only until the first connectToSSE here.
connectOnce == eventSource = 0 /\ userConnect

LiveNext ==
    \/ connectOnce
    \/ \E c \in Sources, fatal \in BOOLEAN : onerror(c, fatal)
    \/ reconnectTimer
    \/ \E wallets \in WalletInputs, days \in DayInputs : startAnalysis(wallets, days)
    \/ \E c \in ConsoleSources, fatal \in BOOLEAN : consoleError(c, fatal)

LiveSpec ==
    /\ Init
    /\ [][LiveNext]_vars
    /\ WF_vars(reconnectTimer)
    /\ WF_vars(\E c \in Sources, fatal \in BOOLEAN : onerror(c, fatal))

(***************************************************************************)
(* A page late in a busy session.  The Monitor is connected and open and   *)
(* has been sent so many frames, alerts first, that its two feeds are      *)
(* FeedSlack records short of full; an analysis is running and has logged  *)
(* so much progress that the console is FeedSlack lines short of its       *)
(* limit: log has appended every line and removed none.  Frames go on     *)
(* arriving, and the user clears the feeds.  The timestamps and the count  *)
(* of frames start from this state: the frames of before have timestamps   *)
(* below 0.                                                                *)
(***************************************************************************)
ActivityAfter(feed, items) ==
    IF items = <<>>
    THEN feed
    ELSE ActivityAfter(addActivityItem(feed, Head(items)), Tail(items))

SidebarAfter(feed, items) ==
    IF items = <<>>
    THEN feed
    ELSE SidebarAfter(addAlertToSidebar(feed, Head(items)), Tail(items))

EarlierAlerts == AlertLimit - FeedSlack
EarlierFrames == ActivityLimit - FeedSlack - 1
EarlierProgress == ConsoleLimit - FeedSlack - Len(ReadyLines) - Len(StartLines) - 1

\* The record of the i-th of the frames of before.
EarlierItem(i) ==
    IF i <= EarlierAlerts
    THEN Item("alert.message", "high", i - EarlierFrames - 1)
    ELSE Item("data.message", "info", i - EarlierFrames - 1)

\* The frame that reports the wallet processed-th of MaxWallets.
ProgressAt(processed) ==
    ProgressFrame(processed, MaxWallets, (100 * processed) \div MaxWallets)

FrameInit ==
    /\ eventSource = 1
    /\ readyState = [c \in Sources |-> IF c = 1 THEN OPEN ELSE CLOSED]
    /\ isConnected = TRUE
    /\ reconnectAttempts = 0
    /\ activityCount = EarlierFrames + 1
    /\ alertCount = EarlierAlerts
    /\ timers = 0
    /\ reloadPending = FALSE
    /\ activityFeed =
          ActivityAfter(<<>>, <<ConnectedItem>> \o [i \in 1..EarlierFrames |-> EarlierItem(i)])
    /\ alertFeed = SidebarAfter(<<>>, [i \in 1..EarlierAlerts |-> EarlierItem(i)])
    /\ isRunning = TRUE
    /\ consoleSource = 1
    /\ consoleReadyState = [c \in ConsoleSources |-> IF c = 1 THEN OPEN ELSE CLOSED]
    /\ consoleLines =
          ReadyLines \o StartLines \o <<Line("Connected to analysis stream", "success")>>
          \o [i \in 1..EarlierProgress |-> ProgressLine(i, MaxWallets, (100 * i) \div MaxWallets)]
    /\ frames = 0
    /\ userOps = 0
    /\ connState = "Open"
    /\ lastOp = "consoleMessage"
    /\ prevOp = "onmessage"
    /\ lastFrame = "progress"
    /\ lastInput = NoInput
    /\ rows = RenderedRows
    /\ rowCalls = <<>>
    /\ errs = 0
    /\ entries = 0
    /\ lastDelay = 0

\* What the server of /api/stream can send at instant t.
FramesAt(t) ==
    {FrameAt("system", "none", t), FrameAt("alert", "high", t),
     FrameAt("alert", "none", t), FrameAt("heartbeat", "none", t),
     FrameAt(NotJSON, "none", t),
     WalletFrameAt("transaction", "0xaaa", Undefined, t),
     WalletFrameAt("transaction", NoWallet, Undefined, t),
     WalletFrameAt("wallet_update", "0xaaa", AlertCount(2), t),
     WalletFrameAt("wallet_update", "0xbbb", AlertCount(2), t)}

frameArrives(c, data) == frames < MaxFeedFrames /\ receive(c, data)

progressArrives(c, data) == frames < MaxFeedFrames /\ consoleReceive(c, data)

FrameNext ==
    \/ \E c \in Sources, data \in FramesAt(frames + 1) : frameArrives(c, data)
    \/ \E c \in ConsoleSources : progressArrives(c, ProgressAt(EarlierProgress + frames + 1))
    \/ clearActivityFeed
    \/ clearConsole

FrameSpec == FrameInit /\ [][FrameNext]_vars

(***************************************************************************)
(* Claims about the Monitor's connection lifecycle, checked under Spec.    *)
(***************************************************************************)
Starts == {"connectToSSE", "startMonitoring"}
Signals == {"onopen", "onmessage", "onerror"}

\* C1: the attempt counter and the number of entries into Reconnecting since the
\* counter was last 0 never exceed maxReconnectAttempts, and an onerror that
\* arrives with the counter at the cap enters Failed: it pushes the error record,
\* schedules no reconnection and leaves the counter alone.
C1_RetryCap ==
    /\ [](reconnectAttempts <= maxReconnectAttempts /\ entries <= maxReconnectAttempts)
    /\ [][(lastOp' = "onerror" /\ reconnectAttempts >= maxReconnectAttempts)
            => /\ connState' = "Failed"
               /\ Head(activityFeed') = FailedItem
               /\ timers' = timers
               /\ reconnectAttempts' = reconnectAttempts]_vars

C1_Witness ==
    /\ lastOp = "onerror"
    /\ connState = "Failed"
    /\ reconnectAttempts = maxReconnectAttempts
    /\ Head(activityFeed) = FailedItem

\* C2 (as stated): after the fifth consecutive onerror since the counter was 0 the
\* monitor is Failed and Reconnecting has been entered exactly 4 times.
C2_FifthErrorFails ==
    (lastOp = "onerror" /\ errs = 5) => (connState = "Failed" /\ entries = 4)

\* C2 (amended): the fifth consecutive onerror still enters Reconnecting, for the
\* fifth time; it is the sixth that enters Failed, with 5 entries made.
C2_SixthErrorFails ==
    /\ (lastOp = "onerror" /\ errs = 5) => (connState = "Reconnecting" /\ entries = 5)
    /\ (lastOp = "onerror" /\ errs = 6) => (connState = "Failed" /\ entries = 5)

C2_Witness == lastOp = "onerror" /\ errs = 6 /\ entries = 5 /\ timers = 0

\* C3: once the monitor has been stopped (Idle), a new connection is opened only by
\* an explicit start: a reconnection timer that was pending at the stop never
\* opens one.
C3_StopCancelsReconnect ==
    [][(connState = "Idle" /\ Unclosed = {} /\ Unclosed' # {}) => lastOp' \in Starts]_vars

\* C4: whatever the interleaving of starts, onerror signals and reconnection timers,
\* at most one EventSource of the monitor is un-closed, and it is the one the
\* monitor holds.
C4_OneLiveSource == Cardinality(Unclosed) <= 1 /\ Unclosed \subseteq {eventSource}

\* A start given while Reconnecting, with the reconnection timer still pending.
C4_Witness ==
    /\ lastOp \in Starts
    /\ prevOp = "onerror"
    /\ timers > 0
    /\ Cardinality(Unclosed) = 1

\* C5: when the console has handled a complete or an error frame, the run is over:
\* isRunning is false, the newest line is the terminal record, and no EventSource
\* of the console is left un-closed (so none is there to reconnect).
C5_TerminalFrameStops ==
    (lastOp = "consoleMessage" /\ lastFrame \in {"complete", "error"})
        => /\ ~isRunning
           /\ consoleLines[Len(consoleLines)].type \in {"success", "error"}
           /\ ConsoleUnclosed = {}

\* C6: while the monitor holds no EventSource (from a stop to the next connect), no
\* onopen, onmessage or onerror handler runs, and a feed changes only by the
\* user's own stop or clear (or the page reload).
C6_NoStaleSignals ==
    [][eventSource = 0 =>
        /\ lastOp' \notin Signals
        /\ (activityFeed' # activityFeed \/ alertFeed' # alertFeed)
              => lastOp' \in {"stopMonitoring", "clearActivityFeed", "reload"}]_vars

C6_Witness ==
    /\ prevOp \in Starts
    /\ lastOp = "stopMonitoring"
    /\ eventSource = 0
    /\ activityFeed = <<DisconnectedItem>>

\* C7: a stop that directly follows a stop changes nothing that can be observed:
\* the connection state, the reconnect state and both feeds.
Observable ==
    <<connState, eventSource, isConnected, readyState, reconnectAttempts, timers,
      activityFeed, alertFeed>>

C7_StopIdempotent ==
    [][(lastOp = "stopMonitoring" /\ lastOp' = "stopMonitoring")
          => Observable' = Observable]_vars

\* C8: after the user's stop, whatever the server answered, the monitor is Idle:
\* no EventSource held, none un-closed, not connected, and the newest record is
\* the "disconnected" one.
C8_StopAlwaysSucceeds ==
    lastOp \in {"stopMonitoring", "stopMonitoringFailed"}
        => /\ connState = "Idle"
           /\ eventSource = 0
           /\ Unclosed = {}
           /\ ~isConnected
           /\ activityFeed # <<>>
           /\ Head(activityFeed) = DisconnectedItem

\* C9: Failed is left for Connecting, Reconnecting or Open only by an explicit
\* start.
C9_FailedIsTerminal ==
    [][(connState = "Failed" /\ connState' \in {"Connecting", "Reconnecting", "Open"})
          => lastOp' \in Starts]_vars

\* C10: an explicit start leaves the attempt counter at 0.
C10_StartResetsAttempts == lastOp \in Starts => reconnectAttempts = 0

\* C11: every onopen handled sets the attempt counter to 0 and puts exactly one
\* record, the "connected" one, on top of the activity feed; so the failure that
\* follows an open is retried as the first one again: the cap counts consecutive
\* failures, not the reconnections of the session.
C11_OpenResets ==
    /\ [][lastOp' = "onopen" =>
            /\ reconnectAttempts' = 0
            /\ connState' = "Open"
            /\ activityFeed' = <<ConnectedItem>> \o activityFeed
            /\ activityCount' = activityCount + 1]_vars
    /\ [][(lastOp = "onopen" /\ lastOp' = "onerror") =>
            /\ connState' = "Reconnecting"
            /\ reconnectAttempts' = 1
            /\ Head(activityFeed') = ReconnectingItem(1)]_vars

\* An open after the last attempt the cap allows.
C11_Witness ==
    /\ lastOp = "onopen"
    /\ reconnectAttempts = 0
    /\ Len(activityFeed) >= 2
    /\ activityFeed[1] = ConnectedItem
    /\ activityFeed[2] = ReconnectingItem(maxReconnectAttempts)

\* C13: every onerror handled adds exactly one record to the activity feed; it is a
\* warning exactly when a reconnection is scheduled, and an error only when the
\* attempts are exhausted and the monitor enters Failed.  No other handler adds an
\* error record.
C13_WarningPerRetry ==
    /\ [][lastOp' = "onerror" =>
            /\ activityCount' = activityCount + 1
            /\ Tail(activityFeed') = activityFeed
            /\ (timers' = timers + 1) <=> (Head(activityFeed').type = "warning")
            /\ (timers' = timers) <=> (Head(activityFeed').type = "error")
            /\ Head(activityFeed').type = "error" =>
                    /\ reconnectAttempts = maxReconnectAttempts
                    /\ connState' = "Failed"]_vars
    /\ [][(activityFeed' # activityFeed /\ activityFeed' # <<>>
            /\ Head(activityFeed').type = "error") => lastOp' = "onerror"]_vars

\* The error record on top of the warning of the last attempt.
C13_Witness ==
    /\ lastOp = "onerror"
    /\ Len(activityFeed) >= 2
    /\ activityFeed[1].type = "error"
    /\ activityFeed[2].type = "warning"
    /\ activityFeed[2].n = maxReconnectAttempts

\* C19: the timer scheduled by the k-th consecutive entry into Reconnecting waits
\* reconnectDelay * k, which is reconnectDelay for the first, and the delay of a
\* reconnection is never shorter than that of the one scheduled before it since
\* the last open.
C19_LinearDelay ==
    /\ []((lastOp = "onerror" /\ connState = "Reconnecting") =>
            /\ lastDelay = reconnectDelay * entries
            /\ entries = 1 => lastDelay = reconnectDelay)
    /\ [][(lastOp' = "onerror" /\ timers' = timers + 1) => lastDelay' >= lastDelay]_vars

\* The timer of the last reconnection the cap allows.
C19_Witness ==
    /\ lastOp = "onerror"
    /\ connState = "Reconnecting"
    /\ entries = maxReconnectAttempts
    /\ lastDelay = reconnectDelay * maxReconnectAttempts

\* C14: once the page has connected, if every connection fails and nothing else
\* happens, the monitor reaches Failed with the record that says so on top of the
\* activity feed; from the exhaustion of the attempts on no further reconnection is
\* scheduled, and the record stays in the feed.  The analysis console answers every
\* error of its stream with an error line and leaves the running state.
C14_NeverSilent ==
    /\ (lastOp = "connectToSSE") ~>
            (/\ connState = "Failed"
             /\ reconnectAttempts = maxReconnectAttempts
             /\ activityFeed # <<>>
             /\ Head(activityFeed) = FailedItem)
    /\ [][reconnectAttempts = maxReconnectAttempts =>
            /\ timers' <= timers
            /\ reconnectAttempts' = reconnectAttempts]_vars
    /\ [][(\E i \in 1..Len(activityFeed) : activityFeed[i] = FailedItem) =>
            (\E i \in 1..Len(activityFeed') : activityFeed'[i] = FailedItem)]_vars
    /\ [][lastOp' = "consoleError" =>
            /\ ~isRunning'
            /\ consoleLines'[Len(consoleLines')].type = "error"]_vars

\* Every attempt made, the monitor has given up and nothing is pending.
C14_Witness ==
    /\ connState = "Failed"
    /\ entries = maxReconnectAttempts
    /\ timers = 0
    /\ Unclosed = {}
    /\ activityFeed # <<>>
    /\ Head(activityFeed) = FailedItem

(***************************************************************************)
(* Claims about the frames of the analysis console, checked under          *)
(* ConsoleSpec.                                                            *)
(***************************************************************************)
\* The step delivers a progress frame to the console and adds exactly one line, at
\* the end of the console.
ProgressLogged ==
    /\ lastOp' = "consoleMessage"
    /\ lastFrame' = "progress"
    /\ Len(consoleLines') = Len(consoleLines) + 1
    /\ SubSeq(consoleLines', 1, Len(consoleLines)) = consoleLines

Last(lines) == lines[Len(lines)]

Added(feed, feedAfter, limit, now) ==
    /\ feedAfter # <<>>
    /\ Head(feedAfter).n = now
    /\ Len(feedAfter) = IF Len(feed) < limit THEN Len(feed) + 1 ELSE limit
    /\ Tail(feedAfter) = SubSeq(feed, 1, Len(feedAfter) - 1)

\* C12: the activity feed never holds more than 100 records and the alert feed
\* never more than 50, whatever frames arrive and whenever the feed is cleared,
\* and a step that adds to a feed leaves the record of the frame just arrived as
\* its first element.
C12_FeedsBounded ==
    /\ [](Len(activityFeed) <= ActivityLimit /\ Len(alertFeed) <= AlertLimit)
    /\ [][(activityFeed' # activityFeed /\ activityFeed' # <<>>) =>
            Head(activityFeed').n = frames']_vars
    /\ [][alertFeed' # alertFeed => Head(alertFeed').n = frames']_vars

\* Both feeds full, the oldest record of each cut off.
C12_Witness ==
    /\ Len(activityFeed) = ActivityLimit
    /\ activityFeed[ActivityLimit] # ConnectedItem
    /\ Len(alertFeed) = AlertLimit
    /\ alertFeed[AlertLimit] # EarlierItem(1)

\* C15: a frame that is not JSON, received while open, adds exactly one record, of
\* type debug, to the activity feed and leaves the connection open and the attempt
\* counter as it was.
C15_MalformedLogged ==
    [][(lastOp' = "onmessage" /\ lastFrame' = NotJSON) =>
            /\ Added(activityFeed, activityFeed', ActivityLimit, frames')
            /\ Head(activityFeed').type = "debug"
            /\ connState' = "Open"
            /\ reconnectAttempts' = reconnectAttempts]_vars

\* C16: a frame of a type the Monitor does not know adds exactly one record, of
\* type debug, to the activity feed and changes neither the connection state nor
\* the alert feed.
C16_UnknownLogged ==
    [][(lastOp' = "onmessage" /\ lastFrame' = "heartbeat") =>
            /\ Added(activityFeed, activityFeed', ActivityLimit, frames')
            /\ Head(activityFeed').type = "debug"
            /\ connState' = connState
            /\ alertFeed' = alertFeed]_vars

InArrivalOrder ==
    /\ \A i \in 1..(Len(activityFeed) - 1) :
            (activityFeed[i].n # 0 /\ activityFeed[i + 1].n # 0) =>
                activityFeed[i].n > activityFeed[i + 1].n
    /\ \A i \in 1..(Len(alertFeed) - 1) : alertFeed[i].n > alertFeed[i + 1].n
    /\ \A i \in 1..(Len(consoleLines) - 1) :
            (consoleLines[i].type = "progress" /\ consoleLines[i + 1].type = "progress") =>
                consoleLines[i].processed < consoleLines[i + 1].processed

\* A step takes no record out of a feed of the Monitor but the oldest ones, and
\* those only to keep the feed within its limit.
Kept(feed, feedAfter, limit) ==
    \/ feedAfter = feed
    \/ /\ feedAfter # <<>>
       /\ Len(feedAfter) <= Len(feed) + 1
       /\ Tail(feedAfter) = SubSeq(feed, 1, Len(feedAfter) - 1)
       /\ Len(feedAfter) <= Len(feed) => Len(feedAfter) = limit

\* The same for the console, which cuts ConsoleTrim lines at a time.
LinesKept ==
    \/ consoleLines' = consoleLines
    \/ LET dropped == Len(consoleLines) + 1 - Len(consoleLines')
       IN  /\ consoleLines' # <<>>
           /\ dropped \in {0, ConsoleTrim}
           /\ SubSeq(consoleLines', 1, Len(consoleLines') - 1) =
                  SubSeq(consoleLines, dropped + 1, Len(consoleLines))
           /\ dropped > 0 => Len(consoleLines) + 1 > ConsoleLimit

\* C20 as stated: the records of each feed are in the order of arrival, and a
\* record leaves a feed only by being cut off at the limit.
C20_OnlyEviction ==
    /\ []InArrivalOrder
    /\ [][/\ Kept(activityFeed, activityFeed', ActivityLimit)
           /\ Kept(alertFeed, alertFeed', AlertLimit)
           /\ LinesKept]_vars

\* C20 as the code has it: the records of each feed are in the order of arrival,
\* and a record leaves a feed only by being cut off at the limit or by the user
\* clearing the feed.
C20_EvictionOrClear ==
    /\ []InArrivalOrder
    /\ [][/\ \/ Kept(activityFeed, activityFeed', ActivityLimit)
              \/ (lastOp' = "clearActivityFeed" /\ activityFeed' = <<>>)
           /\ Kept(alertFeed, alertFeed', AlertLimit)
           /\ \/ LinesKept
              \/ (lastOp' = "clearConsole" /\ Len(consoleLines') = 1)]_vars

\* The console has cut its oldest lines, and the activity feed has begun anew after
\* a clear.
C20_Witness ==
    /\ Len(consoleLines) = ConsoleLimit + 1 - ConsoleTrim
    /\ Last(consoleLines).type = "progress"
    /\ Len(activityFeed) = 1
    /\ Head(activityFeed).n = frames

(***************************************************************************)
(* Claims about the reconnection timer, checked under LiveSpec and Spec.   *)
(***************************************************************************)
\* C21: an error handled while attempts remain increments the attempt counter by
\* exactly one and schedules exactly one timer, and with no stop the timer fires:
\* connectToSSE runs and the monitor is connecting again.
C21_RetryHappens ==
    /\ [][(lastOp' = "onerror" /\ reconnectAttempts < maxReconnectAttempts) =>
            /\ reconnectAttempts' = reconnectAttempts + 1
            /\ timers' = timers + 1
            /\ connState' = "Reconnecting"]_vars
    /\ [][lastOp' = "reconnectTimer" =>
            /\ connState' = "Connecting"
            /\ eventSource' # 0
            /\ readyState'[eventSource'] = CONNECTING
            /\ reconnectAttempts' = reconnectAttempts]_vars
    /\ (lastOp = "onerror" /\ connState = "Reconnecting") ~> (lastOp = "reconnectTimer")

\* The timer of the first error has fired.
C21_Witness ==
    /\ lastOp = "reconnectTimer"
    /\ prevOp = "onerror"
    /\ connState = "Connecting"
    /\ reconnectAttempts = 1
    /\ timers = 0

\* C26: no more than one reconnection timer is ever pending.
C26_OneTimerPending == timers <= 1

(***************************************************************************)
(* Claims about the commands of the Monitor, checked under Spec.           *)
(***************************************************************************)
\* C23: connectToSSE called while the monitor is connecting or open changes neither
\* the EventSource held, nor its state, nor the connection state, nor the feeds.
C23_ConnectIdempotent ==
    [][(lastOp' = "connectToSSE" /\ connState \in {"Connecting", "Open"}) =>
            /\ eventSource' = eventSource
            /\ readyState' = readyState
            /\ connState' = connState
            /\ activityFeed' = activityFeed
            /\ alertFeed' = alertFeed]_vars

\* C24: clearActivityFeed leaves the activity feed empty and changes neither the
\* EventSource held, nor its state, nor isConnected, nor the attempt counter, nor
\* the pending timers, nor the alert feed, whatever the connection state.
C24_ClearTouchesFeedOnly ==
    [][lastOp' = "clearActivityFeed" =>
            /\ activityFeed' = <<>>
            /\ eventSource' = eventSource
            /\ readyState' = readyState
            /\ isConnected' = isConnected
            /\ reconnectAttempts' = reconnectAttempts
            /\ timers' = timers
            /\ alertFeed' = alertFeed
            /\ connState' = connState]_vars

\* A clear while a reconnection is pending and an alert is shown.
C24_Witness ==
    /\ lastOp = "clearActivityFeed"
    /\ activityFeed = <<>>
    /\ connState = "Reconnecting"
    /\ timers > 0
    /\ reconnectAttempts > 0
    /\ alertFeed # <<>>

\* C30: isConnected is true only while the EventSource held is open.
C30_ConnectedMeansOpen ==
    isConnected => (eventSource # 0 /\ readyState[eventSource] = OPEN)

(***************************************************************************)
(* Further claims about the feeds, checked under FrameSpec, and about the  *)
(* analysis console, checked under ConsoleSpec.                            *)
(***************************************************************************)
\* C25: a step that cuts records off a feed cuts the oldest ones, more than one of
\* them, and leaves room, so that the next record is taken without cutting; the
\* record just added is never cut.
C25_BatchEviction ==
    /\ [][(activityFeed' # <<>> /\ activityFeed' # activityFeed
            /\ Len(activityFeed') <= Len(activityFeed)) =>
            /\ Tail(activityFeed') = SubSeq(activityFeed, 1, Len(activityFeed') - 1)
            /\ Len(activityFeed) + 1 - Len(activityFeed') > 1
            /\ Len(activityFeed') < ActivityLimit]_vars
    /\ [][(alertFeed' # <<>> /\ alertFeed' # alertFeed /\ Len(alertFeed') <= Len(alertFeed)) =>
            /\ Tail(alertFeed') = SubSeq(alertFeed, 1, Len(alertFeed') - 1)
            /\ Len(alertFeed) + 1 - Len(alertFeed') > 1
            /\ Len(alertFeed') < AlertLimit]_vars
    /\ [][(lastOp' = "consoleMessage" /\ Len(consoleLines') <= Len(consoleLines)) =>
            /\ Last(consoleLines').processed > Last(consoleLines).processed
            /\ Len(consoleLines) + 1 - Len(consoleLines') > 1
            /\ Len(consoleLines') < ConsoleLimit]_vars

\* C28: an alert frame, with or without a priority, either adds one record to each
\* of the two feeds and counts the alert, or adds none to either.
C28_AlertAllOrNothing ==
    [][(lastOp' = "onmessage" /\ lastFrame' \in {"alert", NoPriority}) =>
            \/ /\ Added(activityFeed, activityFeed', ActivityLimit, frames')
               /\ Added(alertFeed, alertFeed', AlertLimit, frames')
               /\ alertCount' = alertCount + 1
            \/ /\ activityFeed' = activityFeed
               /\ alertFeed' = alertFeed
               /\ alertCount' = alertCount]_vars

\* C27: while the console is not running no EventSource of the console is left
\* un-closed, and never more than one is.
C27_IdleConsoleHoldsNoStream ==
    /\ ~isRunning => ConsoleUnclosed = {}
    /\ Cardinality(ConsoleUnclosed) <= 1

\* The inputs the validation is meant to let through: a number of wallets from 1 to
\* 500 and a number of days from 0.1 to 7.0.
InRange(x, low, high) == ~x.nan /\ low <= x.val /\ x.val <= high
ValidInput(in) == InRange(in.wallets, 1, MaxWallets) /\ InRange(in.days, 1, 70)

\* C29: startAnalysis called while not running opens a stream exactly when the
\* inputs are valid; otherwise it logs an error, opens nothing and leaves isRunning
\* false.
C29_ValidatedStart ==
    [][lastOp' \in {"startAnalysis", "startAnalysisRejected"} =>
            IF ValidInput(lastInput')
            THEN /\ lastOp' = "startAnalysis"
                 /\ isRunning'
                 /\ consoleSource' # 0
                 /\ consoleReadyState'[consoleSource'] = CONNECTING
            ELSE /\ lastOp' = "startAnalysisRejected"
                 /\ ~isRunning'
                 /\ consoleReadyState' = consoleReadyState
                 /\ consoleSource' = consoleSource
                 /\ Last(consoleLines').type = "error"]_vars

====
